---- MODULE Spec2Model ----
(***************************************************************************)
(* Model of mandelbrot_generator (src/src/main.rs): coordinate-pair        *)
(* parsing, the pixel-to-plane mapping, the escape-time iteration and the  *)
(* band-parallel render driven by main.                                    *)
(*                                                                         *)
(* f64 arithmetic is modelled as binary floating point with round to       *)
(* nearest, ties to even, on a significand of Precision bits (f64 has 53). *)
(* The exponent is unbounded: overflow, infinities, NaN, subnormals and    *)
(* the sign of zero are outside the model.                                 *)
(***************************************************************************)
EXTENDS Integers, Sequences, FiniteSets, TLC

\* Significand width of the modelled floating-point format.
Precision == 8

----------------------------------------------------------------------------
\* Floating point: a value is <<m, e>>, standing for m * 2^e, with m = 0 and
\* e = 0 for zero and 2^(Precision-1) <= |m| < 2^Precision otherwise. The
\* operations are functions, so that each is applied to computed values.

Float == Int \X Int

Abs(n) == IF n < 0 THEN -n ELSE n

Sgn(n) == IF n < 0 THEN -1 ELSE 1

\* The number of bits of n.
BitLen[n \in Nat] == IF n = 0 THEN 0 ELSE 1 + BitLen[n \div 2]

\* The float nearest to n * 2^e (ties to even), n having len bits.
FRoundLen[n \in Int, e \in Int, len \in Nat] ==
  IF n = 0 THEN <<0, 0>>
  ELSE IF len <= Precision
    THEN <<n * 2^(Precision - len), e - (Precision - len)>>
    ELSE LET s == len - Precision
             q == Abs(n) \div 2^s
             r == Abs(n) % 2^s
             half == 2^(s - 1)
             q2 == IF r > half \/ (r = half /\ q % 2 = 1) THEN q + 1 ELSE q
         IN  IF q2 = 2^Precision
               THEN <<Sgn(n) * 2^(Precision - 1), e + s + 1>>
               ELSE <<Sgn(n) * q2, e + s>>

FRound[n \in Int, e \in Int] == FRoundLen[n, e, BitLen[Abs(n)]]

FZero == <<0, 0>>

FNeg[x \in Float] == <<-x[1], x[2]>>

FAdd[x \in Float, y \in Float] ==
  IF x[1] = 0 THEN y
  ELSE IF y[1] = 0 THEN x
  ELSE LET d == x[2] - y[2]
       IN  IF d > Precision + 1 THEN x
           ELSE IF -d > Precision + 1 THEN y
           ELSE IF d >= 0 THEN FRound[x[1] * 2^d + y[1], y[2]]
           ELSE FRound[x[1] + y[1] * 2^(-d), x[2]]

FSub[x \in Float, y \in Float] == FAdd[x, FNeg[y]]

FMul[x \in Float, y \in Float] == FRound[x[1] * y[1], x[2] + y[2]]

\* x / y for y # 0; the extra low bit of the quotient records a remainder.
FDiv[x \in Float, y \in Float] ==
  IF x[1] = 0 THEN FZero
  ELSE LET n == Abs(x[1]) * 2^(Precision + 2)
           d == Abs(y[1])
           q == 2 * (n \div d) + (IF n % d = 0 THEN 0 ELSE 1)
       IN  FRound[Sgn(x[1]) * Sgn(y[1]) * q, x[2] - y[2] - Precision - 3]

\* x > y
FGt[x \in Float, y \in Float] == FSub[x, y][1] > 0

\* `n as f64`
FromInt[n \in Int] == FRound[n, 0]

\* The float a decimal literal num/den parses to.
FRat(num, den) == FDiv[FromInt[num], FromInt[den]]

----------------------------------------------------------------------------
\* Option<T>

None == <<>>

Some(v) == <<v>>

----------------------------------------------------------------------------
\* num::Complex<f64>

Complex == [re : Float, im : Float]

Cx(re, im) == [re |-> re, im |-> im]

CAdd[a \in Complex, b \in Complex] == Cx(FAdd[a.re, b.re], FAdd[a.im, b.im])

CMul[a \in Complex, b \in Complex] ==
  Cx(FSub[FMul[a.re, b.re], FMul[a.im, b.im]],
     FAdd[FMul[a.re, b.im], FMul[a.im, b.re]])

NormSqr[z \in Complex] == FAdd[FMul[z.re, z.re], FMul[z.im, z.im]]

----------------------------------------------------------------------------
\* escape_time

EscapeLimit == 255

\* The radius compared with the squared norm.
EscapeRadius == FromInt[2]

\* The squared radius a point must leave.
EscapeRadiusSqr == FromInt[4]

LoopState == [z : Complex, i : Nat, iters : Nat, returned : BOOLEAN]

\* One iteration of the loop of escape_time, from the loop state st: z, the
\* loop index i, the iterations entered so far, and whether the loop has
\* returned Some(i).
EscapeBody(st, c) ==
  IF st.returned THEN st
  ELSE IF FGt[NormSqr[st.z], EscapeRadiusSqr]
    THEN [st EXCEPT !.returned = TRUE, !.iters = st.iters + 1]
    ELSE [z |-> CAdd[CMul[st.z, st.z], c], i |-> st.i + 1,
          iters |-> st.iters + 1, returned |-> FALSE]

EscapeStep[st \in LoopState, c \in Complex] == EscapeBody(st, c)

\* n iterations (the range 0..limit is walked in halves to keep the
\* evaluation shallow).
EscapeLoop[st \in LoopState, c \in Complex, n \in Nat] ==
  IF n = 0 THEN st
  ELSE IF n = 1 THEN EscapeStep[st, c]
  ELSE EscapeLoop[EscapeLoop[st, c, n \div 2], c, n - n \div 2]

\* The result of escape_time(c, limit) and the iterations it performed.
EscapeResult[end \in LoopState] ==
  [res |-> IF end.returned THEN Some(end.i) ELSE None, iters |-> end.iters]

\* What EscapeRun returns.
EscapeRuns == [res : Seq(Nat), iters : Nat]

EscapeRun[c \in Complex, limit \in Nat] ==
  EscapeResult[EscapeLoop[[z |-> Cx(FZero, FZero), i |-> 0, iters |-> 0,
                           returned |-> FALSE], c, limit]]

EscapeTime(c, limit) == EscapeRun[c, limit].res

----------------------------------------------------------------------------
\* pixel_to_point

\* The imaginary axis taken to grow with the pixel row.
PixelToPointUp(bounds, pixel, upper_left, lower_right) ==
  LET width == FSub[lower_right.re, upper_left.re]
      height == FSub[upper_left.im, lower_right.im]
  IN  Cx(FAdd[upper_left.re,
              FDiv[FMul[FromInt[pixel[1]], width], FromInt[bounds[1]]]],
         FAdd[upper_left.im,
              FDiv[FMul[FromInt[pixel[2]], height], FromInt[bounds[2]]]])

PixelToPoint(bounds, pixel, upper_left, lower_right) ==
  LET width == FSub[lower_right.re, upper_left.re]
      height == FSub[upper_left.im, lower_right.im]
      pixel_x == FromInt[pixel[1]]
      pixel_y == FromInt[pixel[2]]
      bounds_x == FromInt[bounds[1]]
      bounds_y == FromInt[bounds[2]]
  IN  Cx(FAdd[upper_left.re, FDiv[FMul[pixel_x, width], bounds_x]],
         FSub[upper_left.im, FDiv[FMul[pixel_y, height], bounds_y]])

----------------------------------------------------------------------------
\* &str: a text is its sequence of UTF-8 bytes. The one non-ASCII character
\* of the model is a two-byte one, "C3" "A9".

Digits == <<"0", "1", "2", "3", "4", "5", "6", "7", "8", "9">>

IsDigit(b) == \E d \in 1..10 : Digits[d] = b

DigitValue(b) == (CHOOSE d \in 1..10 : Digits[d] = b) - 1

IsContinuation(b) == b = "A9"

\* str::is_char_boundary
IsCharBoundary(s, index) ==
  \/ index = 0
  \/ index = Len(s)
  \/ index < Len(s) /\ ~IsContinuation(s[index + 1])

\* char::encode_utf8
EncodeUtf8(ch) == IF ch = "e'" THEN <<"C3", "A9">> ELSE <<ch>>

\* The byte offset of the last occurrence (rfind).
FindLast(s, ch) ==
  LET pat == EncodeUtf8(ch)
      hits == {i \in 0..(Len(s) - Len(pat)) : SubSeq(s, i + 1, i + Len(pat)) = pat}
  IN  IF hits = {} THEN None
      ELSE Some(CHOOSE i \in hits : \A j \in hits : i >= j)

\* str::find: the byte offset of the first occurrence of the character.
Find(s, ch) ==
  LET pat == EncodeUtf8(ch)
      hits == {i \in 0..(Len(s) - Len(pat)) : SubSeq(s, i + 1, i + Len(pat)) = pat}
  IN  IF hits = {} THEN None
      ELSE Some(CHOOSE i \in hits : \A j \in hits : i <= j)

\* &s[from..to]: the slice, or None where the index panics (an end that is
\* no character boundary).
Slice(s, from, to) ==
  IF from <= to /\ to <= Len(s) /\ IsCharBoundary(s, from) /\ IsCharBoundary(s, to)
    THEN Some(SubSeq(s, from + 1, to))
    ELSE None

\* The value of a nonempty run of digits.
RECURSIVE DigitsValue(_)
DigitsValue(s) ==
  IF Len(s) = 0 THEN 0
  ELSE 10 * DigitsValue(SubSeq(s, 1, Len(s) - 1)) + DigitValue(s[Len(s)])

AllDigits(s) == Len(s) > 0 /\ \A k \in 1..Len(s) : IsDigit(s[k])

\* T::from_str for T = i32 and T = usize: an optional sign ('+', and '-' for
\* the signed type), then one digit or more. Texts long enough to overflow T
\* are beyond the model's lengths.
FromStr(T, s) ==
  IF Len(s) > 0 /\ s[1] = "+" /\ AllDigits(Tail(s)) THEN Some(DigitsValue(Tail(s)))
  ELSE IF Len(s) > 0 /\ s[1] = "-" /\ T = "i32" /\ AllDigits(Tail(s))
    THEN Some(-DigitsValue(Tail(s)))
  ELSE IF AllDigits(s) THEN Some(DigitsValue(s))
  ELSE None

\* parse_pair::<T>(s, separator)
ParsePair(T, s, separator) ==
  LET found == Find(s, separator)
  IN  IF found = None THEN [kind |-> "None"]
      ELSE LET index == found[1]
               left == Slice(s, 0, index)
               right == Slice(s, index + 1, Len(s))
           IN  IF left = None \/ right = None THEN [kind |-> "Panic"]
               ELSE LET l == FromStr(T, left[1])
                        r == FromStr(T, right[1])
                    IN  IF l # None /\ r # None
                          THEN [kind |-> "Some", left |-> l[1], right |-> r[1]]
                          ELSE [kind |-> "None"]

----------------------------------------------------------------------------
\* render

\* `count as u8`
AsU8(n) == n % 256

\* The count itself stored, without the subtraction from 255.
PixelByteCount(res) == IF res = None THEN 0 ELSE AsU8(res[1])

\* The byte render stores for a result of escape_time (u8 subtraction).
PixelByte(res) == IF res = None THEN 0 ELSE (255 - AsU8(res[1])) % 256

\* What one pass of the body of render's loops does with the point of its
\* pixel and the run of escape_time on it.
RenderStore[index \in Nat, point \in Complex, run \in EscapeRuns] ==
  [index |-> index, point |-> point, escaped |-> run.res, iters |-> run.iters,
   byte |-> PixelByte(run.res)]

RenderPoint[index \in Nat, point \in Complex] ==
  RenderStore[index, point, EscapeRun[point, EscapeLimit]]

\* One pass of the body of render's loops: the index written, the point
\* evaluated, the result of escape_time and the byte stored.
RenderBody(bounds, row, column, upper_left, lower_right) ==
  RenderPoint[row * bounds[1] + column,
              PixelToPoint(bounds, <<column, row>>, upper_left, lower_right)]

\* render(pixels, bounds, upper_left, lower_right) as one call: the buffer it
\* leaves, or None where its assertion fails.
Render(pixels, bounds, upper_left, lower_right) ==
  IF Len(pixels) # bounds[1] * bounds[2] THEN None
  ELSE Some([p \in 1..Len(pixels) |->
              RenderBody(bounds, (p - 1) \div bounds[1], (p - 1) % bounds[1],
                         upper_left, lower_right).byte])

\* Overlapping windows of the slice instead of disjoint chunks.
ChunksMutOverlapping(len, chunk_size) ==
  [k \in 1..((len + chunk_size - 1) \div chunk_size) |->
    [start |-> k - 1, len |-> chunk_size]]

\* slice::chunks_mut(chunk_size), chunk_size > 0: the chunks as index
\* ranges of the slice, in order.
ChunksMut(len, chunk_size) ==
  LET n == (len + chunk_size - 1) \div chunk_size
  IN  [k \in 1..n |->
        [start |-> (k - 1) * chunk_size,
         len |-> IF k * chunk_size <= len THEN chunk_size
                 ELSE len - (k - 1) * chunk_size]]

----------------------------------------------------------------------------
\* Inputs of the model.

MaxWidth == 3
MaxHeight == 3
MaxThreads == 2

\* The decimal text of a one-digit number.
NumText(n) == <<Digits[n + 1]>>

\* Command-line texts for PIXELS: every WxH in range, and malformed ones.
BoundsTexts ==
  {NumText(w) \o <<"x">> \o NumText(h) : w \in 0..MaxWidth, h \in 0..MaxHeight}
    \cup {<<"2", "x">>, <<"2", ",", "2">>}

\* Parsed UPPERLEFT, LOWERRIGHT pairs: the usage example, a window around
\* the origin, a window on the body of the set, an inverted and an empty one.
Viewports ==
  { <<Cx(FRat(-120, 100), FRat(35, 100)), Cx(FRat(-1, 1), FRat(20, 100))>>,
    <<Cx(FRat(-1, 1), FRat(1, 1)), Cx(FRat(1, 1), FRat(-1, 1))>>,
    <<Cx(FRat(-17, 10), FRat(5, 10)), Cx(FRat(0, 1), FRat(-3, 10))>>,
    <<Cx(FRat(1, 1), FRat(-1, 1)), Cx(FRat(-1, 1), FRat(1, 1))>>,
    <<Cx(FRat(3, 10), FRat(3, 10)), Cx(FRat(3, 10), FRat(3, 10))>> }

----------------------------------------------------------------------------
\* main

VARIABLES
  pc,           \* where main is
  threads,      \* size of the Rayon thread pool
  bounds,       \* <<width, height>>
  upper_left,
  lower_right,
  pixels,       \* the pixel buffer
  bands,        \* the chunks of the buffer, as index ranges
  jobs,         \* per band: the state of its closure call
  written,      \* history, per pixel: the writes made to it
  input,        \* arguments of a function applied on its own
  output        \* and its result

vars == <<pc, threads, bounds, upper_left, lower_right, pixels, bands, jobs,
          written, input, output>>

mainVars == <<pc, threads, bounds, upper_left, lower_right, pixels, bands,
              jobs, written>>

Running == {i \in 1..Len(jobs) : jobs[i].st = "run"}

Init ==
  /\ pc = "parse"
  /\ threads \in 1..MaxThreads
  /\ bounds = <<0, 0>>
  /\ upper_left = Cx(FZero, FZero)
  /\ lower_right = Cx(FZero, FZero)
  /\ pixels = <<>>
  /\ bands = <<>>
  /\ jobs = <<>>
  /\ written = <<>>
  /\ input = None
  /\ output = None

\* main lines 22-24: the three expect()s.
ParseArgs ==
  /\ pc = "parse"
  /\ \E text \in BoundsTexts, view \in Viewports :
       LET parsed == ParsePair("usize", text, "x")
       IN  IF parsed.kind = "Some"
             THEN /\ bounds' = <<parsed.left, parsed.right>>
                  /\ upper_left' = view[1]
                  /\ lower_right' = view[2]
                  /\ pc' = "alloc"
             ELSE /\ pc' = "panic_expect"
                  /\ UNCHANGED <<bounds, upper_left, lower_right>>
  /\ UNCHANGED <<threads, pixels, bands, jobs, written, input, output>>

\* Chunks of height pixels instead of width.
ChunkSizeHeight(b) == b[2]

\* The chunk size main passes to chunks_mut (line 34).
ChunkSize(b) == b[1]

\* A band taken for the row below its own.
BandTopNext(i) == i + 1

\* The row a band starts at: its index in the enumeration (line 37).
BandTop(i) == i

\* The band's upper left corner taken from the row below.
BandCornersBelow(b, top, ul, lr) ==
  [bounds |-> <<b[1], 1>>,
   upper_left |-> PixelToPoint(b, <<0, top + 1>>, ul, lr),
   lower_right |-> PixelToPoint(b, <<b[1], top + 1>>, ul, lr)]

\* The bounds and corners main derives for the band at row top (lines 38-43).
BandCorners(b, top, ul, lr) ==
  LET width == b[1]
      height == 1
  IN  [bounds |-> <<width, height>>,
       upper_left |-> PixelToPoint(b, <<0, top>>, ul, lr),
       lower_right |-> PixelToPoint(b, <<width, top + height>>, ul, lr)]

\* main lines 26-27: vec![0; total_pixels].
Allocate ==
  /\ pc = "alloc"
  /\ pixels' = [p \in 1..(bounds[1] * bounds[2]) |-> 0]
  /\ written' = [p \in 1..(bounds[1] * bounds[2]) |->
                  [count |-> 0, by |-> -1, point |-> None, escaped |-> None,
                   iters |-> 0]]
  /\ pc' = "chunks"
  /\ UNCHANGED <<threads, bounds, upper_left, lower_right, bands, jobs, input, output>>

\* main line 34: chunks_mut panics on a chunk size of 0.
MakeBands ==
  /\ pc = "chunks"
  /\ IF ChunkSize(bounds) = 0
       THEN /\ pc' = "panic_chunks"
            /\ UNCHANGED <<bands, jobs>>
       ELSE /\ bands' = ChunksMut(Len(pixels), ChunkSize(bounds))
            /\ jobs' = [i \in 1..Len(bands') |->
                         [st |-> "todo", row |-> 0, column |-> 0, calls |-> 0,
                          bounds |-> <<0, 0>>, upper_left |-> None,
                          lower_right |-> None]]
            /\ pc' = "render"
  /\ UNCHANGED <<threads, bounds, upper_left, lower_right, pixels, written, input, output>>

\* main lines 36-44 and render line 186: a free thread takes band i, derives
\* its corners and enters render, whose assertion it must pass.
StartBand(i) ==
  /\ pc = "render"
  /\ jobs[i].st = "todo"
  /\ Cardinality(Running) < threads
  /\ \E band \in {BandCorners(bounds, BandTop(i - 1), upper_left, lower_right)} :
       IF bands[i].len # band.bounds[1] * band.bounds[2]
         THEN /\ pc' = "panic_assert"
              /\ UNCHANGED jobs
         ELSE /\ jobs' = [jobs EXCEPT ![i] =
                           [st |-> "run", row |-> 0, column |-> 0, calls |-> 0,
                            bounds |-> band.bounds,
                            upper_left |-> band.upper_left,
                            lower_right |-> band.lower_right]]
              /\ pc' = pc
  /\ UNCHANGED <<threads, bounds, upper_left, lower_right, pixels, bands, written, input, output>>

\* The row loop run for one row too many.
LoopsDoneLate(job) == job.row > job.bounds[2] \/ job.bounds[1] = 0

\* The loops of render are over once row reaches bounds.1 (or the rows are
\* empty).
LoopsDone(job) == job.row >= job.bounds[2] \/ job.bounds[1] = 0

\* The column after this one.
NextColumn(column) == column + 1

\* render lines 188-197: one pass of the loop body in band i.
RenderPixel(i) ==
  /\ pc = "render"
  /\ jobs[i].st = "run"
  /\ ~LoopsDone(jobs[i])
  /\ \E body \in {RenderBody(jobs[i].bounds, jobs[i].row, jobs[i].column,
                              jobs[i].upper_left, jobs[i].lower_right)} :
       LET job == jobs[i]
           next == NextColumn(job.column)
           p == bands[i].start + body.index + 1
       IN  IF body.index >= bands[i].len
             THEN /\ pc' = "panic_index"
                  /\ UNCHANGED <<pixels, written, jobs>>
             ELSE /\ pixels' = [pixels EXCEPT ![p] = body.byte]
                  /\ written' = [written EXCEPT ![p] =
                                  [count |-> @.count + 1, by |-> i - 1,
                                   point |-> Some(body.point),
                                   escaped |-> body.escaped,
                                   iters |-> body.iters]]
                  /\ jobs' = [jobs EXCEPT ![i].calls = @ + 1,
                                ![i].column = IF next >= job.bounds[1] THEN 0 ELSE next,
                                ![i].row = IF next >= job.bounds[1] THEN @ + 1 ELSE @]
                  /\ pc' = pc
  /\ UNCHANGED <<threads, bounds, upper_left, lower_right, bands, input, output>>

\* render returns and the closure call of band i ends.
FinishBand(i) ==
  /\ pc = "render"
  /\ jobs[i].st = "run"
  /\ LoopsDone(jobs[i])
  /\ jobs' = [jobs EXCEPT ![i].st = "done"]
  /\ UNCHANGED <<pc, threads, bounds, upper_left, lower_right, pixels, bands, written, input, output>>

\* main line 45: for_each returns once every band's closure call has ended.
Join ==
  /\ pc = "render"
  /\ \A i \in 1..Len(jobs) : jobs[i].st = "done"
  /\ pc' = "write"
  /\ UNCHANGED <<threads, bounds, upper_left, lower_right, pixels, bands, jobs, written, input, output>>

\* main line 48: write_image reads the buffer; the file system decides
\* whether it succeeds.
WriteImage ==
  /\ pc = "write"
  /\ \E ok \in BOOLEAN : pc' = IF ok THEN "done" ELSE "panic_io"
  /\ UNCHANGED <<threads, bounds, upper_left, lower_right, pixels, bands, jobs, written, input, output>>

Next ==
  \/ ParseArgs
  \/ Allocate
  \/ MakeBands
  \/ \E i \in 1..Len(jobs) : StartBand(i)
  \/ \E i \in 1..Len(jobs) : RenderPixel(i)
  \/ \E i \in 1..Len(jobs) : FinishBand(i)
  \/ Join
  \/ WriteImage

Spec == Init /\ [][Next]_vars

\* Worker threads keep running bands and main keeps going: no step that can
\* be taken is put off for ever.
FairSpec == Spec /\ WF_vars(Next)

----------------------------------------------------------------------------
\* Properties of the render driven by main.

Width == bounds[1]

Height == bounds[2]

Rendered == pc \in {"write", "done", "panic_io"}

\* The byte of pixel (column, row) as main's band for that row computes it,
\* from bounds and the corners alone.
BandByte(b, ul, lr, row, column) ==
  RenderBody(<<b[1], 1>>, 0, column,
             PixelToPoint(b, <<0, row>>, ul, lr),
             PixelToPoint(b, <<b[1], row + 1>>, ul, lr)).byte

ExpectedBuffer(b, ul, lr) ==
  [p \in 1..(b[1] * b[2]) |->
    BandByte(b, ul, lr, (p - 1) \div b[1], (p - 1) % b[1])]

\* C1: once the parallel render has returned, the buffer is the one
\* determined by bounds and corners alone, whatever the number of threads
\* and the order in which bands and their pixels were run.
C1_BufferDependsOnInputsOnly ==
  Rendered => pixels = ExpectedBuffer(bounds, upper_left, lower_right)

C1_Witness ==
  /\ pc = "done"
  /\ threads = 2
  /\ Width = 2 /\ Height = 3
  /\ \E p \in 1..Len(pixels) : pixels[p] # 0

\* C2: with width > 0 the bands are the rows of the buffer: height bands,
\* band r is [r*width, (r+1)*width), every index lies in exactly one band,
\* and no call of render from main fails its length assertion.
C2_BandsPartitionBuffer ==
  pc \in {"render", "write", "done", "panic_io", "panic_assert", "panic_index"} =>
    /\ Width > 0
    /\ Len(bands) = Height
    /\ \A r \in 0..(Height - 1) :
         bands[r + 1] = [start |-> r * Width, len |-> Width]
    /\ \A p \in 0..(Len(pixels) - 1) :
         Cardinality({k \in 1..Len(bands) :
           bands[k].start <= p /\ p < bands[k].start + bands[k].len}) = 1
    /\ pc # "panic_assert"

C2_Witness ==
  /\ pc = "render"
  /\ Width = 2 /\ Height = 3
  /\ \A i \in 1..Len(jobs) : jobs[i].st # "todo"

\* C3: the buffer starts zeroed, every pixel is written at most once and
\* only by the band of its row, and when the render has returned every
\* pixel has been written exactly once and no band is running any more.
C3_WrittenOnceByOwner ==
  /\ \A p \in 1..Len(written) :
       /\ written[p].count <= 1
       /\ written[p].count = 0 => pixels[p] = 0
       /\ written[p].count = 1 => written[p].by = (p - 1) \div Width
  /\ Rendered =>
       /\ \A p \in 1..Len(written) : written[p].count = 1
       /\ \A i \in 1..Len(jobs) : jobs[i].st = "done"

C3_Witness ==
  /\ pc = "done"
  /\ Width = 2 /\ Height = 2
  /\ \A p \in 1..4 : written[p].count = 1

\* C4: a written pixel holds 0 when escape_time returned None and
\* 255 - count when it returned Some(count); count is below 255, so the
\* byte is the exact difference and lies in 1..255.
C4_ByteIsExact ==
  \A p \in 1..Len(written) :
    written[p].count > 0 =>
      IF written[p].escaped = None THEN pixels[p] = 0
      ELSE /\ written[p].escaped[1] < 255
           /\ pixels[p] = 255 - written[p].escaped[1]
           /\ pixels[p] \in 1..255

C4_Witness ==
  \E p, q \in 1..Len(written) :
    /\ written[p].count > 0 /\ written[p].escaped = None
    /\ written[q].count > 0 /\ written[q].escaped # None /\ written[q].escaped[1] > 1

\* Zero width or height, or corners that are not upper left and lower right.
Degenerate ==
  \/ Width = 0
  \/ Height = 0
  \/ ~FGt[lower_right.re, upper_left.re]
  \/ ~FGt[upper_left.im, lower_right.im]

\* C8: degenerate bounds or corners stop the program where they are
\* constructed: no band is made and render is never entered with them.
C8_DegenerateRejected ==
  (pc # "parse" /\ Degenerate) =>
    /\ pc \notin {"render", "write", "done", "panic_io"}
    /\ bands = <<>>
    /\ \A i \in 1..Len(jobs) : jobs[i].st = "todo"

\* C10: escape_time runs at most limit iterations, a finished band has made
\* exactly width calls of it, and a render that has started returns.
C10_RenderTerminates ==
  /\ [](\A p \in 1..Len(written) : written[p].iters <= EscapeLimit)
  /\ [](\A i \in 1..Len(jobs) : jobs[i].st = "done" => jobs[i].calls = Width)
  /\ (pc = "render" ~> pc = "write")

C10_Witness ==
  /\ pc = "write"
  /\ threads = 2
  /\ Width = 2 /\ Height = 3
  /\ \E p \in 1..Len(written) : written[p].iters = EscapeLimit

\* The point of pixel p (1-based buffer position) in the whole image.
WholePoint(p) ==
  PixelToPoint(bounds, <<(p - 1) % Width, (p - 1) \div Width>>,
               upper_left, lower_right)

\* C9 as claimed: every band evaluates, for each of its pixels, exactly the
\* point the whole-image mapping gives, writes it at r*width + col, and the
\* finished buffer is the one a single call of render on the whole image
\* produces.
C9_BandEqualsWhole ==
  /\ \A p \in 1..Len(written) :
       written[p].count > 0 =>
         /\ written[p].point = Some(WholePoint(p))
         /\ written[p].by = (p - 1) \div Width
  /\ Rendered =>
       Some(pixels) = Render([p \in 1..Len(pixels) |-> 0], bounds,
                             upper_left, lower_right)

\* C9 as amended: every band writes only its own row, the point it evaluates
\* has the imaginary part of the whole-image point and, in column 0, also
\* its real part; where the point is the whole-image point, the byte is the
\* one a single call of render on the whole image stores.
C9_BandAgreesUpToRounding ==
  /\ \A p \in 1..Len(written) :
       written[p].count > 0 =>
         /\ written[p].by = (p - 1) \div Width
         /\ written[p].point[1].im = WholePoint(p).im
         /\ (p - 1) % Width = 0 => written[p].point[1].re = WholePoint(p).re
  /\ Rendered =>
       \A p \in 1..Len(pixels) :
         written[p].point = Some(WholePoint(p)) =>
           pixels[p] = Render([q \in 1..Len(pixels) |-> 0], bounds,
                              upper_left, lower_right)[1][p]

\* A finished render in which a band evaluated a point that is not the
\* whole-image point.
C9_Witness ==
  /\ pc = "write"
  /\ Width = 3 /\ Height = 2
  /\ FGt[lower_right.re, upper_left.re]
  /\ FGt[upper_left.im, lower_right.im]
  /\ \E p \in 1..Len(written) : written[p].point # Some(WholePoint(p))

----------------------------------------------------------------------------
\* Functions applied on their own: the arguments are drawn in the initial
\* state and one step applies the function.

Idle ==
  /\ threads = 1
  /\ bounds = <<0, 0>>
  /\ upper_left = Cx(FZero, FZero)
  /\ lower_right = Cx(FZero, FZero)
  /\ pixels = <<>>
  /\ bands = <<>>
  /\ jobs = <<>>
  /\ written = <<>>

idleVars == <<threads, bounds, upper_left, lower_right, pixels, bands, jobs,
              written, input>>

\* parse_pair -------------------------------------------------------------

MaxLen == 4

Bytes == {"1", "2", "-", ",", "x", "C3", "A9"}

\* Well-formed UTF-8: the lead byte and the continuation byte come in pairs.
ValidUtf8(s) ==
  \A k \in 1..Len(s) :
    /\ s[k] = "C3" => (k < Len(s) /\ s[k + 1] = "A9")
    /\ s[k] = "A9" => (k > 1 /\ s[k - 1] = "C3")

\* The texts of test_parse_pair.
TestTexts ==
  { <<>>, <<"1", "0", ",">>, <<",", "1", "0">>, <<"1", "0", "2", "0">>,
    <<"1", "0", ",", "2", "0">>, <<"1", "0", ",", "2", "0", "x", "y">>,
    <<"2", "0", "x", "1", "0">> }

Texts ==
  {s \in UNION {[1..n -> Bytes] : n \in 0..MaxLen} : ValidUtf8(s)} \cup TestTexts

AsciiSeparators == {",", "x", "-"}

Separators == AsciiSeparators \cup {"e'"}

InitParse ==
  /\ pc = "parse_pair"
  /\ input \in [text : Texts, separator : Separators]
  /\ output = None
  /\ Idle

CallParsePair ==
  /\ pc = "parse_pair"
  /\ output' = Some(ParsePair("i32", input.text, input.separator))
  /\ pc' = "returned"
  /\ UNCHANGED idleVars

SpecParse == InitParse /\ [][CallParsePair]_vars

\* What splitting s at the first separator byte c and parsing both sides
\* gives.
SplitAtFirst(s, c) ==
  IF \A k \in 1..Len(s) : s[k] # c THEN [kind |-> "None"]
  ELSE LET k == CHOOSE j \in 1..Len(s) : s[j] = c /\ \A h \in 1..(j - 1) : s[h] # c
           l == FromStr("i32", SubSeq(s, 1, k - 1))
           r == FromStr("i32", SubSeq(s, k + 1, Len(s)))
       IN  IF l = None \/ r = None THEN [kind |-> "None"]
           ELSE [kind |-> "Some", left |-> l[1], right |-> r[1]]

\* The cases of the claim, and of test_parse_pair.
ParseExamples(s, c, out) ==
  /\ (c = "," /\ s \in { <<>>, <<"1", "0", ",">>, <<",", "1", "0">>,
                         <<"1", "0", "2", "0">>,
                         <<"1", "0", ",", "2", "0", "x", "y">> })
       => out = [kind |-> "None"]
  /\ (c = "," /\ s = <<"1", "0", ",", "2", "0">>)
       => out = [kind |-> "Some", left |-> 10, right |-> 20]
  /\ (c = "x" /\ s = <<"2", "0", "x", "1", "0">>)
       => out = [kind |-> "Some", left |-> 20, right |-> 10]
  /\ (c = "-" /\ s = <<"1", "-", "-", "2">>)
       => out = [kind |-> "Some", left |-> 1, right |-> -2]

\* C5 as claimed: for every text and separator parse_pair returns without a
\* panic, Some of both numbers exactly when the text splits at the first
\* separator into two texts that parse, and None otherwise.
C5_ParsePairNeverPanics ==
  pc = "returned" =>
    /\ output[1].kind # "Panic"
    /\ Len(EncodeUtf8(input.separator)) = 1 =>
         /\ output[1] = SplitAtFirst(input.text, input.separator)
         /\ ParseExamples(input.text, input.separator, output[1])

\* C5 as amended: the same, for an ASCII separator (the precondition the
\* documentation of parse_pair states).
C5_ParsePairAsciiSeparator ==
  (pc = "returned" /\ input.separator \in AsciiSeparators) =>
    /\ output[1].kind # "Panic"
    /\ output[1] = SplitAtFirst(input.text, input.separator)
    /\ ParseExamples(input.text, input.separator, output[1])

C5_Witness ==
  /\ pc = "returned"
  /\ input.text = <<"1", "-", "-", "2">>
  /\ input.separator = "-"
  /\ output[1] = [kind |-> "Some", left |-> 1, right |-> -2]

\* pixel_to_point ----------------------------------------------------------

\* The arguments of test_pixel_to_point.
TestMapping ==
  [bounds |-> <<100, 200>>, pixel |-> <<25, 175>>,
   upper_left |-> Cx(FromInt[-1], FromInt[1]),
   lower_right |-> Cx(FromInt[1], FromInt[-1])]

\* Positive bounds, the pixels of the image and of its far edges, the
\* corners of Viewports.
Mappings ==
  {m \in [bounds : (1..MaxWidth) \X (1..MaxHeight),
          pixel : (0..MaxWidth) \X (0..MaxHeight),
          upper_left : {v[1] : v \in Viewports},
          lower_right : {v[2] : v \in Viewports}] :
     m.pixel[1] <= m.bounds[1] /\ m.pixel[2] <= m.bounds[2]}
    \cup {TestMapping}

InitMap ==
  /\ pc = "pixel_to_point"
  /\ input \in Mappings
  /\ output = None
  /\ Idle

CallPixelToPoint ==
  /\ pc = "pixel_to_point"
  /\ output' = Some(PixelToPoint(input.bounds, input.pixel,
                                 input.upper_left, input.lower_right))
  /\ pc' = "returned"
  /\ UNCHANGED idleVars

SpecMap == InitMap /\ [][CallPixelToPoint]_vars

\* The float <<m, e>> is exactly n * 2^k.
IsValue(x, n, k) ==
  IF x[2] >= k THEN x[1] * 2^(x[2] - k) = n ELSE x[1] = n * 2^(k - x[2])

\* x - y is a float: the subtraction does not round.
ExactSub(x, y) ==
  LET k == IF x[2] <= y[2] THEN x[2] ELSE y[2]
  IN  IsValue(FSub[x, y], x[1] * 2^(x[2] - k) - y[1] * 2^(y[2] - k), k)

\* n * x is a float: the multiplication does not round.
ExactMul(n, x) == IsValue(FMul[FromInt[n], x], n * x[1], x[2])

\* C6 as claimed: the result is upper_left.re + column * (lower_right.re -
\* upper_left.re) / width and upper_left.im - row * (upper_left.im -
\* lower_right.im) / height, pixel (0, 0) maps to upper_left, pixel
\* (width, height) maps to lower_right, and the mapping of
\* test_pixel_to_point is (-0.5, -0.75).
C6_MapsCornersToCorners ==
  pc = "returned" =>
    /\ output[1] =
         Cx(FAdd[input.upper_left.re,
                 FDiv[FMul[FromInt[input.pixel[1]],
                           FSub[input.lower_right.re, input.upper_left.re]],
                      FromInt[input.bounds[1]]]],
            FSub[input.upper_left.im,
                 FDiv[FMul[FromInt[input.pixel[2]],
                           FSub[input.upper_left.im, input.lower_right.im]],
                      FromInt[input.bounds[2]]]])
    /\ input.pixel = <<0, 0>> => output[1] = input.upper_left
    /\ input.pixel = input.bounds => output[1] = input.lower_right
    /\ input = TestMapping => output[1] = Cx(FRat(-1, 2), FRat(-3, 4))

\* C6 as amended: the result is that formula with every operation rounded
\* to a float; pixel (0, 0) maps to upper_left; pixel (width, height) maps
\* to lower_right in each coordinate whose extent (lower_right minus
\* upper_left) and whose product with the bound are computed without
\* rounding; the mapping of test_pixel_to_point is (-0.5, -0.75).
C6_MapsCornersWhenExact ==
  pc = "returned" =>
    /\ output[1] =
         Cx(FAdd[input.upper_left.re,
                 FDiv[FMul[FromInt[input.pixel[1]],
                           FSub[input.lower_right.re, input.upper_left.re]],
                      FromInt[input.bounds[1]]]],
            FSub[input.upper_left.im,
                 FDiv[FMul[FromInt[input.pixel[2]],
                           FSub[input.upper_left.im, input.lower_right.im]],
                      FromInt[input.bounds[2]]]])
    /\ input.pixel = <<0, 0>> => output[1] = input.upper_left
    /\ input.pixel = input.bounds =>
         /\ ( /\ ExactSub(input.lower_right.re, input.upper_left.re)
              /\ ExactMul(input.bounds[1],
                          FSub[input.lower_right.re, input.upper_left.re]) )
              => output[1].re = input.lower_right.re
         /\ ( /\ ExactSub(input.upper_left.im, input.lower_right.im)
              /\ ExactMul(input.bounds[2],
                          FSub[input.upper_left.im, input.lower_right.im]) )
              => output[1].im = input.lower_right.im
    /\ input = TestMapping => output[1] = Cx(FRat(-1, 2), FRat(-3, 4))

\* The far corner of a 3x2 image is mapped exactly in the one coordinate
\* whose arithmetic is exact, and not in the other.
C6_Witness ==
  /\ pc = "returned"
  /\ input.bounds = <<3, 2>> /\ input.pixel = <<3, 2>>
  /\ ExactSub(input.upper_left.im, input.lower_right.im)
  /\ ExactMul(2, FSub[input.upper_left.im, input.lower_right.im])
  /\ output[1].im = input.lower_right.im
  /\ output[1].re # input.lower_right.re

\* escape_time ---------------------------------------------------------------

MaxLimit == 6

\* Points of a grid of step 1/2 on [-2, 2] x [-2, 2].
EscapePoints == {Cx(FRat(a, 2), FRat(b, 2)) : a \in -4..4, b \in -4..4}

InitEscape ==
  /\ pc = "escape_time"
  /\ input \in [c : EscapePoints, limit : 0..MaxLimit, limit2 : 0..MaxLimit]
  /\ output = None
  /\ Idle

CallEscapeTime ==
  /\ pc = "escape_time"
  /\ output' = [first |-> EscapeTime(input.c, input.limit),
                second |-> EscapeTime(input.c, input.limit2)]
  /\ pc' = "returned"
  /\ UNCHANGED idleVars

SpecEscape == InitEscape /\ [][CallEscapeTime]_vars

\* The orbit of 0 under z -> z*z + c.
Orbit[c \in Complex, k \in Nat] ==
  IF k = 0 THEN Cx(FZero, FZero)
  ELSE CAdd[(LET z == Orbit[c, k - 1] IN CMul[z, z]), c]

Outside(c, k) == FGt[NormSqr[Orbit[c, k]], FromInt[4]]

\* C7: Some(i) is kept by every limit above i, None can only turn into
\* Some(j) with j at or above the limit it was returned for, i is the first
\* index at which the orbit is outside the circle of radius 2, 0 never
\* escapes and 2+2i escapes within 5 iterations.
C7_EscapeMonotonic ==
  pc = "returned" =>
    LET c == input.c
        first == output.first
        second == output.second
    IN  /\ (first # None /\ input.limit2 >= first[1] + 1) => second = first
        /\ (first = None /\ input.limit2 > input.limit) =>
             (second = None \/ second[1] >= input.limit)
        /\ first # None =>
             /\ first[1] < input.limit
             /\ Outside(c, first[1])
             /\ \A k \in 0..(first[1] - 1) : ~Outside(c, k)
        /\ first = None => \A k \in 0..(input.limit - 1) : ~Outside(c, k)
        /\ c = Cx(FZero, FZero) => first = None
        /\ (c = Cx(FromInt[2], FromInt[2]) /\ input.limit >= 5) =>
             (first # None /\ first[1] <= 5)

\* A point inside the budget of the second call only.
C7_Witness ==
  /\ pc = "returned"
  /\ output.first = None
  /\ output.second # None
  /\ output.second[1] >= 3
====
